---- MODULE Spec2Model ----
(***************************************************************************)
(* Model of project.Create (pkg/project/create.go): the scaffolding run    *)
(* that loads a template's preset, dispatches its steps (npm, patch, copy, *)
(* gitignore) and then flushes the accumulated package.json documents and  *)
(* the .gitignore sections.                                                *)
(*                                                                         *)
(* Strings that the code inspects character by character (.gitignore       *)
(* content, section names and paths, rendered templates) are sequences of  *)
(* one-character strings.  A JSON file is held as the ordered list of its  *)
(* top-level key/value pairs, as gokvpairs.KeyValuePairs decodes it.       *)
(***************************************************************************)
EXTENDS Integers, Sequences, FiniteSets, TLC

\* Longest preset (number of steps) explored.
MaxSteps == 2

----------------------------------------------------------------------------
\* Paths of the working directory used by the runs explored.

Marker == "sst.config.ts"
gitignoreFilename == ".gitignore"
PackageJson == "package.json"
WebPackageJson == "web/package.json"
TsConfig == "tsconfig.json"
WebDir == "web"

Paths == {Marker, gitignoreFilename, PackageJson, WebPackageJson, TsConfig}

----------------------------------------------------------------------------
\* File contents.

NoFile == [kind |-> "absent", doc |-> <<>>, text |-> <<>>]
TextFile(t) == [kind |-> "text", doc |-> <<>>, text |-> t]
JsonFile(d) == [kind |-> "json", doc |-> d, text |-> <<>>]

Exists(f, name) == f[name].kind # "absent"

\* JSON values: an object mapping package names to versions, or a scalar.
EmptyMap == [p \in {} |-> ""]
Obj(m) == [obj |-> TRUE, m |-> m, s |-> ""]
Str(s) == [obj |-> FALSE, m |-> EmptyMap, s |-> s]
KV(k, v) == [Key |-> k, Value |-> v]

\* target[pkg] = version on a Go map
MapSet(m, pkg, version) ==
    [p \in (DOMAIN m) \cup {pkg} |-> IF p = pkg THEN version ELSE m[p]]

----------------------------------------------------------------------------
\* Strings as sequences of characters.

NL == "\n"

RECURSIVE Contains(_, _)
\* strings.Contains(s, sub)
Contains(s, sub) ==
    IF Len(sub) > Len(s) THEN FALSE
    ELSE IF SubSeq(s, 1, Len(sub)) = sub THEN TRUE
    ELSE Contains(Tail(s), sub)

\* strings.HasSuffix(s, "\n")
HasSuffixNL(s) == Len(s) > 0 /\ s[Len(s)] = NL

----------------------------------------------------------------------------
\* Steps of a preset (type step, npmStep, patchStep, gitignoreStep).
\* decodes = FALSE: json.Unmarshal of the step's properties fails.

NoPatch == [op |-> "none", key |-> "", val |-> ""]

Step(type, decodes, file, package, version, dev, patch, regex, name, path) ==
    [Type |-> type, decodes |-> decodes, File |-> file, Package |-> package,
     Version |-> version, Dev |-> dev, Patch |-> patch, Regex |-> regex,
     Name |-> name, Path |-> path]

NpmStep(file, package, version, dev) ==
    Step("npm", TRUE, file, package, version, dev, NoPatch, <<>>, <<>>, <<>>)
PatchStep(file, patch, regex) ==
    Step("patch", TRUE, file, "", "", FALSE, patch, regex, <<>>, <<>>)
CopyStep == Step("copy", TRUE, "", "", "", FALSE, NoPatch, <<>>, <<>>, <<>>)
GitignoreStep(name, path) ==
    Step("gitignore", TRUE, "", "", "", FALSE, NoPatch, <<>>, name, path)
Undecodable(type) ==
    Step(type, FALSE, "", "", "", FALSE, NoPatch, <<>>, <<>>, <<>>)
OtherStep == Step("other", TRUE, "", "", "", FALSE, NoPatch, <<>>, <<>>, <<>>)

\* The default section of Create, lines 58-63.
SstName == <<"#", " ", "s", "s", "t">>
SstPath == <<".", "s", "s", "t">>
DefaultSection == [Name |-> SstName, Path |-> SstPath]

BadPattern == "("

StepUniverse ==
    { NpmStep(PackageJson, "sst", "1", FALSE),
      NpmStep(PackageJson, "sst", "2", FALSE),
      NpmStep(PackageJson, "aws", "", FALSE),
      NpmStep(PackageJson, "sst", "1", TRUE),
      NpmStep(WebPackageJson, "sst", "1", FALSE),
      PatchStep(TsConfig, [op |-> "add", key |-> "types", val |-> "old"],
                <<[Find |-> "old", Replace |-> "new"]>>),
      PatchStep(PackageJson, [op |-> "add", key |-> "type", val |-> "module"], <<>>),
      PatchStep(TsConfig, [op |-> "add", key |-> "types", val |-> "old"],
                <<[Find |-> BadPattern, Replace |-> "new"]>>),
      PatchStep(TsConfig, [op |-> "remove", key |-> "types", val |-> ""], <<>>),
      CopyStep,
      GitignoreStep(<<"#", "1">>, <<"a">>),
      GitignoreStep(<<"#", "2">>, <<"a">>),
      Undecodable("npm"),
      Undecodable("patch"),
      OtherStep }

Presets == UNION { [1..n -> StepUniverse] : n \in 0..MaxSteps }

\* What platform.Templates holds at templates/<name>/preset.json.
PresetAssets ==
    { [readable |-> FALSE, wellformed |-> FALSE, Steps |-> <<>>],
      [readable |-> TRUE, wellformed |-> FALSE, Steps |-> <<>>] }
    \cup { [readable |-> TRUE, wellformed |-> TRUE, Steps |-> s] : s \in Presets }

----------------------------------------------------------------------------
\* Template files (templates/<name>/files), in fs.WalkDir order.  A text
\* template is a sequence of tokens: a literal character, "{A}" for
\* {{.App}}, "{H}" for {{.Home}}, "{?}" for a field the data does not have
\* (Execute fails there) and "{" for text that does not parse.

App == <<"p">>
Home == <<"h">>

DirEntry(rel) == [isDir |-> TRUE, rel |-> rel, json |-> FALSE, toks |-> <<>>, doc |-> <<>>]
TextTemplate(rel, toks) == [isDir |-> FALSE, rel |-> rel, json |-> FALSE, toks |-> toks, doc |-> <<>>]
JsonTemplate(rel, doc) == [isDir |-> FALSE, rel |-> rel, json |-> TRUE, toks |-> <<>>, doc |-> doc]

TemplateTsDoc == <<KV("compilerOptions", Str("template"))>>

Tree(markerToks) ==
    [exists |-> TRUE,
     entries |-> << DirEntry("."),
                    TextTemplate(Marker, markerToks),
                    JsonTemplate(TsConfig, TemplateTsDoc),
                    DirEntry(WebDir) >>]

TemplateTrees ==
    { Tree(<<"x", "{A}", "{H}">>),
      Tree(<<"x", "{">>),
      Tree(<<"x", "{?}", "y">>),
      [exists |-> FALSE, entries |-> <<>>] }

----------------------------------------------------------------------------
\* Initial working directories.

Doc1 == <<KV("name", Str("app")), KV("dependencies", Obj([p \in {"sst"} |-> "0"]))>>
DocBadShape == <<KV("name", Str("app")), KV("dependencies", Str("none"))>>
Doc0 == <<KV("name", Str("web"))>>
TsDoc == <<KV("compilerOptions", Str("strict"))>>
InitialDirs == {WebDir}

GitignoreBoth == SstPath \o <<NL, "a", NL>>

InitialFiles ==
    { [p \in Paths |->
         CASE p = Marker -> m
           [] p = PackageJson -> pj
           [] p = TsConfig -> ts
           [] p = WebPackageJson -> JsonFile(Doc0)
           [] OTHER -> gi] :
        m \in {NoFile, TextFile(<<"x">>)},
        pj \in {NoFile, JsonFile(Doc1), JsonFile(DocBadShape), TextFile(<<"x">>)},
        ts \in {NoFile, JsonFile(TsDoc)},
        gi \in {NoFile, TextFile(<<"x">>), TextFile(GitignoreBoth)} }

----------------------------------------------------------------------------
VARIABLES
    fs,             \* working directory: path -> file content
    dirs,           \* directories of the working directory
    presetAsset,    \* templates/<name>/preset.json in platform.Templates
    templateFiles,  \* templates/<name>/files in platform.Templates
    pc,             \* position of Create
    result,         \* "none" while running, then "ok", an error, or "panic"
    preset,         \* the decoded preset (preset.Steps)
    i,              \* index in preset of the next step of the loop
    packageJsons,   \* path -> [loaded, doc]: the map packageJsons
    gitignoreSteps, \* the slice gitignoreSteps
    flushed,        \* keys of packageJsons the flush loop has visited
    fs0,            \* history: the working directory when Create was called
    wlog,           \* history: the writes made to files, in order
    fault,          \* history: an operating-system or network call failed
    failedAt,       \* history: index of the step that failed, or 0
    registered,     \* history: <<file, field, package>> -> version last set
    queries,        \* history: the requests made to the registry, in order
    reads,          \* history: the files opened by npm steps, as decoded
    handles,        \* the file handles that are open
    run             \* "first", or "second" for a run that follows another

vars == <<fs, dirs, presetAsset, templateFiles, pc, result, preset, i,
          packageJsons, gitignoreSteps, flushed, fs0, wlog, fault, failedAt,
          registered, queries, reads, handles, run>>

NotLoaded == [loaded |-> FALSE, doc |-> <<>>]
Loaded(d) == [loaded |-> TRUE, doc |-> d]

IsError(r) == r \notin {"none", "ok", "panic"}

HasCopy(steps) == \E k \in 1..Len(steps) : steps[k].Type = "copy"

Init ==
    /\ fs \in InitialFiles
    /\ dirs = InitialDirs
    /\ presetAsset \in PresetAssets
    /\ templateFiles \in (IF HasCopy(presetAsset.Steps)
                            THEN TemplateTrees
                            ELSE {Tree(<<"x", "{A}", "{H}">>)})
    /\ pc = "start"
    /\ result = "none"
    /\ preset = <<>>
    /\ i = 0
    /\ packageJsons = [p \in Paths |-> NotLoaded]
    /\ gitignoreSteps = <<>>
    /\ flushed = {}
    /\ fs0 = fs
    /\ wlog = <<>>
    /\ fault = FALSE
    /\ failedAt = 0
    /\ registered = EmptyMap
    /\ queries = <<>>
    /\ reads = <<>>
    /\ handles = {}
    /\ run = "first"

\* Create returns (or panics) with result r.
Return(r) == pc' = "done" /\ result' = r

\* Begin without the os.Stat check of the marker.
BeginNoCheck ==
    /\ pc = "start"
    /\ gitignoreSteps' = <<DefaultSection>>
    /\ pc' = "getwd"
    /\ UNCHANGED <<fs, dirs, presetAsset, templateFiles, result, preset, i,
                   packageJsons, flushed, fs0, wlog, fault, failedAt, registered, queries, reads, run, handles>>

\* Begin with an empty list of sections.
BeginNoDefault ==
    /\ pc = "start"
    /\ gitignoreSteps' = <<>>
    /\ IF Exists(fs, Marker)
         THEN Return("ErrConfigExists")
         ELSE pc' = "getwd" /\ result' = result
    /\ UNCHANGED <<fs, dirs, presetAsset, templateFiles, preset, i, packageJsons,
                   flushed, fs0, wlog, fault, failedAt, registered, queries, reads, run, handles>>

\* create.go:57-67
Begin ==
    /\ pc = "start"
    /\ gitignoreSteps' = <<DefaultSection>>
    /\ IF Exists(fs, Marker)
         THEN Return("ErrConfigExists")
         ELSE pc' = "getwd" /\ result' = result
    /\ UNCHANGED <<fs, dirs, presetAsset, templateFiles, preset, i, packageJsons,
                   flushed, fs0, wlog, fault, failedAt, registered, queries, reads, run, handles>>

\* create.go:69-74: a failing os.Getwd makes Create return nil
Getwd ==
    /\ pc = "getwd"
    /\ \E ok \in BOOLEAN :
         IF ok THEN pc' = "load" /\ result' = result /\ fault' = fault
               ELSE Return("ok") /\ fault' = TRUE
    /\ UNCHANGED <<fs, dirs, presetAsset, templateFiles, preset, i, packageJsons,
                   gitignoreSteps, flushed, fs0, wlog, failedAt, registered, queries, reads, run, handles>>

\* AfterSteps with the config flush inside the loop: as soon as a document
\* is loaded the run goes to the flush.
AfterStepsFlushEarly(steps, k, jsons) ==
    IF \E p \in Paths : jsons[p].loaded THEN "flushConfig"
    ELSE IF k < Len(steps) THEN "steps"
    ELSE "flushIgnore"

\* Where the step loop stands with k steps of steps done: at the next step,
\* or past the loop, at the first of the two flushes (create.go:88, 256, 267).
AfterSteps(steps, k, jsons) ==
    IF k < Len(steps) THEN "steps"
    ELSE IF \E p \in Paths : jsons[p].loaded THEN "flushConfig"
    ELSE "flushIgnore"

\* create.go:76-86
LoadPreset ==
    /\ pc = "load"
    /\ IF ~presetAsset.readable THEN
            Return("ReadFile") /\ UNCHANGED <<preset, i>>
       ELSE IF ~presetAsset.wellformed THEN
            Return("Unmarshal") /\ UNCHANGED <<preset, i>>
       ELSE /\ preset' = presetAsset.Steps
            /\ i' = 1
            /\ pc' = AfterSteps(presetAsset.Steps, 0, packageJsons)
            /\ result' = result
    /\ UNCHANGED <<fs, dirs, presetAsset, templateFiles, packageJsons,
                   gitignoreSteps, flushed, fs0, wlog, fault, failedAt, registered, queries, reads, run, handles>>

\* A step ends the run: Create returns the error r, or panics (r = "panic").
Stop(r) ==
    /\ Return(r)
    /\ i' = i
    /\ failedAt' = IF failedAt = 0 THEN i ELSE failedAt

\* A step is over and the loop goes on (jsons: packageJsons after the step).
Continue(jsons) ==
    /\ i' = i + 1
    /\ pc' = AfterSteps(preset, i, jsons)
    /\ result' = result

AtStep(type) == pc = "steps" /\ preset[i].Type = type

----------------------------------------------------------------------------
\* npm step, create.go:91-148

Field(step) == IF step.Dev THEN "devDependencies" ELSE "dependencies"

\* json.NewDecoder(f).Decode(&packageJson), create.go:105
Decode(file) == file.doc

\* The loop of create.go:117-121: the last item whose key is field (0: none).
TargetIndex(doc, field) ==
    LET S == {k \in 1..Len(doc) : doc[k].Key = field}
    IN  IF S = {} THEN 0 ELSE CHOOSE k \in S : \A j \in S : j <= k

\* item.Value.(map[string]interface{}) panics on a value that is no object.
AssertionPanics(doc, field) ==
    \E k \in 1..Len(doc) : doc[k].Key = field /\ ~doc[k].Value.obj

\* Variant of WithField: a missing field is put before the existing keys.
WithFieldFirst(doc, field) ==
    IF TargetIndex(doc, field) = 0
      THEN <<KV(field, Obj(EmptyMap))>> \o doc
      ELSE doc

\* create.go:122-126: the document with the field, appended when absent.
WithField(doc, field) ==
    IF TargetIndex(doc, field) = 0
      THEN Append(doc, KV(field, Obj(EmptyMap)))
      ELSE doc

\* SetVersion that keeps the version of a package the field already has.
SetVersionKeepFirst(doc, field, package, version) ==
    LET d == WithField(doc, field)
        k == TargetIndex(d, field)
    IN  IF package \in DOMAIN d[k].Value.m THEN d
        ELSE [d EXCEPT ![k].Value = Obj(MapSet(d[k].Value.m, package, version))]

\* create.go:148: target[npmStep.Package] = version
SetVersion(doc, field, package, version) ==
    LET d == WithField(doc, field)
        k == TargetIndex(d, field)
    IN  [d EXCEPT ![k].Value = Obj(MapSet(d[k].Value.m, package, version))]

\* Answers of https://registry.npmjs.org/<package>/latest: no answer, a body
\* that is not JSON, a body with a version, a JSON body without one.
RegistryReplies ==
    { [err |-> "Get", version |-> ""],
      [err |-> "Decode", version |-> ""],
      [err |-> "", version |-> "9"],
      [err |-> "", version |-> ""] }

\* Variant of Lookup: the map never holds the document.
LookupMiss(file) == NotLoaded

\* create.go:98: packageJson := packageJsons[npmStep.File]
Lookup(file) == packageJsons[file]

\* Variant of Resolve: the registry is asked whatever the step says.
ResolveAlwaysQueries(step) ==
    {[queried |-> TRUE, err |-> r.err,
      version |-> IF step.Version = "" THEN r.version ELSE step.Version]
        : r \in RegistryReplies}

\* create.go:128-147: the version of the step, or the registry's answer
\* when the step names none.
Resolve(step) ==
    IF step.Version = ""
      THEN {[queried |-> TRUE, err |-> r.err, version |-> r.version] : r \in RegistryReplies}
      ELSE {[queried |-> FALSE, err |-> "", version |-> step.Version]}

\* A file handle: opened by step at (0: by the ignore flush), closed by a
\* deferred call when Create returns or never closed by the code.
Handle(path, at, deferred) == [path |-> path, at |-> at, deferred |-> deferred]

\* The deferred calls of Create run when it returns or panics.
AtReturn(h) == {x \in h : ~x.deferred}

\* The handles open after an action that leaves h open.
Handles(h) == handles' = IF pc' = "done" THEN AtReturn(h) ELSE h

StepNpm ==
    /\ AtStep("npm")
    /\ LET step == preset[i]
           cached == Lookup(step.File)
           field == Field(step)
           \* os.Open(npmStep.File), create.go:101: f is never closed
           opens == step.decodes /\ ~cached.loaded /\ Exists(fs, step.File)
       IN
       /\ reads' = IF opens
                     THEN Append(reads, [path |-> step.File, doc |-> fs[step.File].doc])
                     ELSE reads
       /\ IF ~step.decodes THEN
               Stop("Unmarshal") /\ UNCHANGED <<packageJsons, fault, registered, queries>>
          ELSE IF ~cached.loaded /\ ~Exists(fs, step.File) THEN
               Stop("Open") /\ UNCHANGED <<packageJsons, fault, registered, queries>>
          ELSE IF ~cached.loaded /\ fs[step.File].kind # "json" THEN
               Stop("Decode") /\ UNCHANGED <<packageJsons, fault, registered, queries>>
          ELSE
            LET doc == IF cached.loaded THEN cached.doc ELSE Decode(fs[step.File])
            IN
            IF AssertionPanics(doc, field) THEN
                 /\ packageJsons' = [packageJsons EXCEPT ![step.File] = Loaded(doc)]
                 /\ Stop("panic")
                 /\ UNCHANGED <<fault, registered, queries>>
            ELSE
              \E reply \in Resolve(step) :
                /\ queries' = IF reply.queried
                                THEN Append(queries, [package |-> step.Package,
                                                      err |-> reply.err,
                                                      version |-> reply.version])
                                ELSE queries
                /\ IF reply.err # "" THEN
                        /\ packageJsons' = [packageJsons EXCEPT
                                              ![step.File] = Loaded(WithField(doc, field))]
                        /\ Stop(reply.err)
                        /\ fault' = TRUE
                        /\ UNCHANGED registered
                   ELSE
                        LET jsons == [packageJsons EXCEPT ![step.File] =
                                        Loaded(SetVersion(doc, field, step.Package, reply.version))]
                        IN  /\ packageJsons' = jsons
                            /\ Continue(jsons)
                            /\ registered' = MapSet(registered,
                                                    <<step.File, field, step.Package>>,
                                                    reply.version)
                            /\ UNCHANGED <<fault, failedAt>>
       /\ Handles(IF opens THEN handles \cup {Handle(step.File, i, FALSE)} ELSE handles)
    /\ UNCHANGED <<fs, dirs, presetAsset, templateFiles, preset, gitignoreSteps,
                   flushed, fs0, wlog, run>>

----------------------------------------------------------------------------
\* patch step, create.go:150-189

HasKey(doc, key) == \E k \in 1..Len(doc) : doc[k].Key = key

\* value.Patch(patchStep.Patch), create.go:171: whether the patch applies
PatchApplies(doc, patch) ==
    CASE patch.op = "add" -> TRUE
      [] patch.op = "remove" -> HasKey(doc, patch.key)
      [] OTHER -> FALSE

\* ... and the patched document
Patched(doc, patch) ==
    IF patch.op = "add" THEN
        IF HasKey(doc, patch.key)
          THEN [k \in 1..Len(doc) |->
                  IF doc[k].Key = patch.key THEN KV(patch.key, Str(patch.val)) ELSE doc[k]]
          ELSE Append(doc, KV(patch.key, Str(patch.val)))
    ELSE SelectSeq(doc, LAMBDA kv : kv.Key # patch.key)

\* regexp.MustCompile(pattern.Find) panics on a pattern that does not compile
Compiles(pattern) == pattern.Find # BadPattern

\* re.ReplaceAllString(packed, pattern.Replace), on the scalar values
ReplaceAllString(doc, pattern) ==
    [k \in 1..Len(doc) |->
       IF ~doc[k].Value.obj /\ doc[k].Value.s = pattern.Find
         THEN KV(doc[k].Key, Str(pattern.Replace))
         ELSE doc[k]]

RECURSIVE ApplyRegex(_, _)
\* create.go:177-180
ApplyRegex(doc, regex) ==
    IF regex = <<>> THEN doc
    ELSE ApplyRegex(ReplaceAllString(doc, Head(regex)), Tail(regex))

Write(path, by) == [path |-> path, by |-> by]

\* PatchMissing that returns the error of os.ReadFile.
PatchMissingFails ==
    Stop("ReadFile") /\ UNCHANGED <<fs, wlog, fault>>

\* create.go:159-163: the target does not exist, the step is skipped
PatchMissing ==
    Continue(packageJsons) /\ UNCHANGED <<fs, wlog, fault, failedAt>>

StepPatch ==
    /\ AtStep("patch")
    /\ LET step == preset[i]
       IN
       IF ~step.decodes THEN
            Stop("Unmarshal") /\ UNCHANGED <<fs, wlog, fault>>
       ELSE IF ~Exists(fs, step.File) THEN
            PatchMissing
       ELSE IF fs[step.File].kind # "json" THEN
            Stop("Parse") /\ UNCHANGED <<fs, wlog, fault>>
       ELSE IF ~PatchApplies(fs[step.File].doc, step.Patch) THEN
            Stop("Patch") /\ UNCHANGED <<fs, wlog, fault>>
       ELSE IF \E k \in 1..Len(step.Regex) : ~Compiles(step.Regex[k]) THEN
            Stop("panic") /\ UNCHANGED <<fs, wlog, fault>>
       ELSE
         LET packed == ApplyRegex(Patched(fs[step.File].doc, step.Patch), step.Regex)
         IN
         \E io \in {"ok", "createFails", "writeFails"} :
           CASE io = "createFails" ->
                  Stop("Create") /\ fault' = TRUE /\ UNCHANGED <<fs, wlog>>
             [] io = "writeFails" ->
                  \* os.Create truncated the file; the error of
                  \* file.WriteString is dropped and the loop goes on
                  /\ fs' = [fs EXCEPT ![step.File] = TextFile(<<>>)]
                  /\ wlog' = Append(wlog, Write(step.File, "patch"))
                  /\ fault' = TRUE
                  /\ failedAt' = IF failedAt = 0 THEN i ELSE failedAt
                  /\ Continue(packageJsons)
             [] OTHER ->
                  /\ fs' = [fs EXCEPT ![step.File] = JsonFile(packed)]
                  /\ wlog' = Append(wlog, Write(step.File, "patch"))
                  /\ Continue(packageJsons)
                  /\ UNCHANGED <<fault, failedAt>>
    /\ UNCHANGED <<dirs, presetAsset, templateFiles, preset, packageJsons,
                   gitignoreSteps, flushed, fs0, registered, queries, reads, run>>
    \* file of os.Create, create.go:182-186: closed when Create returns
    /\ Handles(IF wlog' # wlog
                 THEN handles \cup {Handle(preset[i].File, i, TRUE)}
                 ELSE handles)

----------------------------------------------------------------------------
\* copy step, create.go:191-243

\* os.Stat(name): a nil error for a path that exists, ENOENT otherwise
Stat(f, name) == IF Exists(f, name) THEN "nil" ELSE "ENOENT"

\* os.IsExist(err): err reports that a file already exists
IsExist(err) == err = "EEXIST"

\* template.New(path).Parse(string(src)) succeeds
Parses(entry) == entry.json \/ \A k \in 1..Len(entry.toks) : entry.toks[k] # "{"

\* tmpl.Execute has an error: a field the data does not have
ExecuteFails(entry) == ~entry.json /\ \E k \in 1..Len(entry.toks) : entry.toks[k] = "{?}"

RECURSIVE Render(_)
\* What tmpl.Execute(output, data) writes to output, up to its first error.
Render(toks) ==
    IF toks = <<>> \/ Head(toks) = "{?}" THEN <<>>
    ELSE (CASE Head(toks) = "{A}" -> App
            [] Head(toks) = "{H}" -> Home
            [] OTHER -> <<Head(toks)>>) \o Render(Tail(toks))

Rendered(entry) ==
    IF entry.json THEN JsonFile(entry.doc) ELSE TextFile(Render(entry.toks))

WalkState(f, d, w, status) == [fs |-> f, dirs |-> d, wlog |-> w, status |-> status]

\* The callback of fs.WalkDir on one entry, create.go:193-239.
Visit(entry, st) ==
    IF entry.isDir THEN
        IF entry.rel \in Paths /\ Exists(st.fs, entry.rel)
          THEN [st EXCEPT !.status = "MkdirAll"]
          ELSE [st EXCEPT !.dirs = IF entry.rel = "." THEN @ ELSE @ \cup {entry.rel}]
    ELSE IF IsExist(Stat(st.fs, entry.rel)) THEN st
    ELSE
        \* os.Create(name) truncates; then tmpl.Execute writes
        LET created == [st EXCEPT !.fs[entry.rel] = TextFile(<<>>),
                                  !.wlog = Append(@, Write(entry.rel, "copy"))]
        IN  IF ~Parses(entry) THEN [created EXCEPT !.status = "panic"]
            ELSE [created EXCEPT !.fs[entry.rel] = Rendered(entry),
                                 !.status = IF ExecuteFails(entry) THEN "Execute" ELSE "ok"]

RECURSIVE Walk(_, _)
\* fs.WalkDir: the entries in order, until the callback returns an error
Walk(entries, st) ==
    IF entries = <<>> \/ st.status # "ok" THEN st
    ELSE Walk(Tail(entries), Visit(Head(entries), st))

StepCopy ==
    /\ AtStep("copy")
    /\ IF ~templateFiles.exists THEN
            \* the callback is called with d = nil: d.IsDir() panics
            Stop("panic") /\ UNCHANGED <<fs, dirs, wlog>>
       ELSE
         LET st == Walk(templateFiles.entries, WalkState(fs, dirs, wlog, "ok"))
         IN  /\ fs' = st.fs
             /\ dirs' = st.dirs
             /\ wlog' = st.wlog
             /\ IF st.status = "ok"
                  THEN Continue(packageJsons) /\ UNCHANGED failedAt
                  ELSE Stop(st.status)
    /\ UNCHANGED <<presetAsset, templateFiles, preset, packageJsons, gitignoreSteps,
                   flushed, fs0, fault, registered, queries, reads, run>>
    /\ Handles(handles)

----------------------------------------------------------------------------
\* gitignore step, create.go:245-252

StepGitignore ==
    /\ AtStep("gitignore")
    /\ IF ~preset[i].decodes THEN
            Stop("Unmarshal") /\ UNCHANGED gitignoreSteps
       ELSE /\ gitignoreSteps' = Append(gitignoreSteps,
                                        [Name |-> preset[i].Name, Path |-> preset[i].Path])
            /\ Continue(packageJsons)
            /\ UNCHANGED failedAt
    /\ UNCHANGED <<fs, dirs, presetAsset, templateFiles, preset, packageJsons,
                   flushed, fs0, wlog, fault, registered, queries, reads, run>>
    /\ Handles(handles)

\* A step of a type the switch has no case for, create.go:90
StepOther ==
    /\ pc = "steps"
    /\ preset[i].Type \notin {"npm", "patch", "copy", "gitignore"}
    /\ Continue(packageJsons)
    /\ UNCHANGED <<fs, dirs, presetAsset, templateFiles, preset, packageJsons,
                   gitignoreSteps, flushed, fs0, wlog, fault, failedAt, registered, queries, reads, run>>
    /\ Handles(handles)

----------------------------------------------------------------------------
\* The two flushes, create.go:256-292

\* json.MarshalIndent(content, "", "  ")
MarshalIndent(doc) == JsonFile(doc)

LoadedFiles == {p \in Paths : packageJsons[p].loaded}

\* FlushConfig that drops the error of os.WriteFile and goes on.
FlushConfigDropsError ==
    /\ pc = "flushConfig"
    /\ \E file \in LoadedFiles \ flushed :
       \E written \in BOOLEAN :
         /\ IF written
              THEN /\ fs' = [fs EXCEPT ![file] = MarshalIndent(packageJsons[file].doc)]
                   /\ wlog' = Append(wlog, Write(file, "flushConfig"))
                   /\ fault' = fault
              ELSE /\ fault' = TRUE
                   /\ UNCHANGED <<fs, wlog>>
         /\ flushed' = flushed \cup {file}
         /\ pc' = IF LoadedFiles \subseteq flushed \cup {file}
                    THEN "flushIgnore" ELSE "flushConfig"
         /\ result' = result
    /\ UNCHANGED <<dirs, presetAsset, templateFiles, preset, i, packageJsons,
                   gitignoreSteps, fs0, failedAt, registered, queries, reads, run>>
    /\ Handles(handles)

\* One iteration of the range over packageJsons, create.go:256-265
FlushConfig ==
    /\ pc = "flushConfig"
    /\ \E file \in LoadedFiles \ flushed :
       \E written \in BOOLEAN :
         IF written THEN
              /\ fs' = [fs EXCEPT ![file] = MarshalIndent(packageJsons[file].doc)]
              /\ wlog' = Append(wlog, Write(file, "flushConfig"))
              /\ flushed' = flushed \cup {file}
              /\ pc' = IF LoadedFiles \subseteq flushed \cup {file}
                         THEN "flushIgnore" ELSE "flushConfig"
              /\ UNCHANGED <<result, fault>>
         ELSE
              /\ Return("WriteFile")
              /\ fault' = TRUE
              /\ UNCHANGED <<fs, wlog, flushed>>
    /\ UNCHANGED <<dirs, presetAsset, templateFiles, preset, i, packageJsons,
                   gitignoreSteps, fs0, failedAt, registered, queries, reads, run>>
    /\ Handles(handles)

\* Variant of Section: the section is written whatever the file holds.
SectionAlways(content, step) ==
    (IF content # <<>> /\ ~HasSuffixNL(content) THEN <<NL>> ELSE <<>>)
    \o <<NL>> \o step.Name \o <<NL>> \o step.Path \o <<NL>>

\* What one section adds to the file, create.go:281-289 (content: the text
\* read at create.go:274-278).
Section(content, step) ==
    IF Contains(content, step.Path) THEN <<>>
    ELSE (IF content # <<>> /\ ~HasSuffixNL(content) THEN <<NL>> ELSE <<>>)
         \o <<NL>> \o step.Name \o <<NL>> \o step.Path \o <<NL>>

RECURSIVE SectionsLastFirst(_, _)
\* Variant of Sections: the sections are written from the last to the first.
SectionsLastFirst(content, steps) ==
    IF steps = <<>> THEN <<>>
    ELSE SectionsLastFirst(content, Tail(steps)) \o Section(content, Head(steps))

RECURSIVE Sections(_, _)
\* The loop of create.go:280-290
Sections(content, steps) ==
    IF steps = <<>> THEN <<>>
    ELSE Section(content, Head(steps)) \o Sections(content, Tail(steps))

\* create.go:267-292
FlushIgnore ==
    /\ pc = "flushIgnore"
    /\ \E opened \in BOOLEAN :
         IF ~opened THEN
              /\ Return("OpenFile")
              /\ fault' = TRUE
              /\ UNCHANGED <<fs, wlog>>
         ELSE
              LET content == fs[gitignoreFilename].text
                  added == Sections(content, gitignoreSteps)
              IN  /\ fs' = [fs EXCEPT ![gitignoreFilename] = TextFile(content \o added)]
                  /\ wlog' = IF added = <<>> /\ Exists(fs, gitignoreFilename)
                               THEN wlog
                               ELSE Append(wlog, Write(gitignoreFilename, "flushIgnore"))
                  /\ Return("ok")
                  /\ fault' = fault
    /\ UNCHANGED <<dirs, presetAsset, templateFiles, preset, i, packageJsons,
                   gitignoreSteps, flushed, fs0, failedAt, registered, queries, reads, run>>
    /\ Handles(handles)

\* Create is called again, in the same directory with the same template,
\* after a run that returned nil with no failed system call (a new
\* process: no handle is open).
Again ==
    /\ pc = "done" /\ result = "ok" /\ ~fault /\ run = "first"
    /\ run' = "second"
    /\ pc' = "start"
    /\ result' = "none"
    /\ preset' = <<>>
    /\ i' = 0
    /\ packageJsons' = [p \in Paths |-> NotLoaded]
    /\ gitignoreSteps' = <<>>
    /\ flushed' = {}
    /\ fs0' = fs
    /\ wlog' = <<>>
    /\ failedAt' = 0
    /\ registered' = EmptyMap
    /\ queries' = <<>>
    /\ reads' = <<>>
    /\ handles' = {}
    /\ UNCHANGED <<fs, dirs, presetAsset, templateFiles, fault>>

Next ==
    \/ Begin
    \/ Getwd
    \/ LoadPreset
    \/ StepNpm
    \/ StepPatch
    \/ StepCopy
    \/ StepGitignore
    \/ StepOther
    \/ FlushConfig
    \/ FlushIgnore
    \/ Again

Spec == Init /\ [][Next]_vars
----------------------------------------------------------------------------
\* Properties of Create.

Done == pc = "done"
PresetLoaded == i > 0
IgnoreText(f) == f[gitignoreFilename].text
WrittenBy(by) == {k \in 1..Len(wlog) : wlog[k].by = by}
WritesTo(path, by) == {k \in 1..Len(wlog) : wlog[k] = Write(path, by)}

RECURSIVE Count(_, _)
\* number of (possibly overlapping) occurrences of sub in s
Count(s, sub) ==
    IF Len(sub) > Len(s) \/ Len(sub) = 0 THEN 0
    ELSE (IF SubSeq(s, 1, Len(sub)) = sub THEN 1 ELSE 0) + Count(Tail(s), sub)

\* C1: when sst.config.ts exists as Create is called, the run goes from its
\* start straight to its end with ErrConfigExists: the preset is never
\* loaded, no step and no flush runs, and no file or directory changes.
C1_MarkerExistsAborts ==
    Exists(fs0, Marker) =>
        /\ pc \in {"start", "done"}
        /\ Done => result = "ErrConfigExists"
        /\ fs = fs0 /\ dirs = InitialDirs /\ wlog = <<>>
        /\ preset = <<>> /\ i = 0 /\ LoadedFiles = {} /\ flushed = {}

C1_Witness ==
    /\ Done /\ result = "ErrConfigExists"
    /\ Exists(fs0, Marker)
    /\ presetAsset.wellformed /\ Len(presetAsset.Steps) = MaxSteps
    /\ ~Exists(fs, gitignoreFilename)

\* C2: a copy step leaves every template file's destination that existed
\* before the step with the content it had.
C2_ExistingDestinationKept ==
    [][ (AtStep("copy") /\ templateFiles.exists) =>
          \A k \in 1..Len(templateFiles.entries) :
             LET e == templateFiles.entries[k]
             IN  (~e.isDir /\ Exists(fs, e.rel)) => fs'[e.rel] = fs[e.rel] ]_vars

\* C3: after a successful run whose preset has two gitignore steps with the
\* same path and different names, and whose .gitignore did not contain the
\* path, the path occurs exactly once in .gitignore.
C3_SamePathWrittenOnce ==
    (Done /\ result = "ok" /\ PresetLoaded) =>
        \A j, k \in 1..Len(preset) :
            ( /\ j < k
              /\ preset[j].Type = "gitignore" /\ preset[k].Type = "gitignore"
              /\ preset[j].Path = preset[k].Path /\ preset[j].Name # preset[k].Name
              /\ ~Contains(IgnoreText(fs0), preset[j].Path) )
            => Count(IgnoreText(fs), preset[j].Path) = 1

\* The entries of field in the file at path: the sequence, in key order, of
\* the versions package has under a top-level key named field.
Entries(f, path, field, package) ==
    IF f[path].kind # "json" THEN <<>>
    ELSE LET doc == f[path].doc
             hit(kv) == kv.Key = field /\ kv.Value.obj /\ package \in DOMAIN kv.Value.m
             hits == SelectSeq(doc, hit)
         IN  [k \in 1..Len(hits) |-> hits[k].Value.m[package]]

SameTarget(a, b) == a.File = b.File /\ a.Dev = b.Dev /\ a.Package = b.Package

LastOfTarget(k) ==
    /\ preset[k].Type = "npm"
    /\ \A j \in (k+1)..Len(preset) : ~(preset[j].Type = "npm" /\ SameTarget(preset[j], preset[k]))

\* C4: after a successful run, for each npm step that is the last one of its
\* (file, field, package), the file holds exactly one entry for the package
\* in the field, with that step's version (the registry's answer when the
\* step names none); so steps for different packages all have their entry.
C4_LastVersionWins ==
    (Done /\ result = "ok" /\ PresetLoaded) =>
        \A k \in 1..Len(preset) :
            LastOfTarget(k) =>
                LET step == preset[k]
                    key == <<step.File, Field(step), step.Package>>
                IN  /\ key \in DOMAIN registered
                    /\ step.Version # "" => registered[key] = step.Version
                    /\ Entries(fs, step.File, Field(step), step.Package) = <<registered[key]>>
                    /\ Cardinality({n \in 1..Len(fs[step.File].doc) :
                                      fs[step.File].doc[n].Key = Field(step)}) = 1

C4_Witness ==
    /\ Done /\ result = "ok" /\ Len(preset) = 2
    /\ preset[1].Type = "npm" /\ preset[2].Type = "npm"
    /\ SameTarget(preset[1], preset[2])
    /\ preset[1].Version = "1" /\ preset[2].Version = "2"
    /\ Entries(fs0, PackageJson, "dependencies", "sst") = <<"0">>
    /\ Entries(fs, PackageJson, "dependencies", "sst") = <<"2">>

\* Two steps for different packages of one file and field: both entries are
\* in the flushed file.
C4_WitnessBoth ==
    /\ Done /\ result = "ok" /\ Len(preset) = 2
    /\ preset[1].Type = "npm" /\ preset[2].Type = "npm"
    /\ preset[1].File = preset[2].File /\ preset[1].Dev = preset[2].Dev
    /\ preset[1].Package # preset[2].Package
    /\ Entries(fs, preset[1].File, Field(preset[1]), preset[1].Package) # <<>>
    /\ Entries(fs, preset[2].File, Field(preset[2]), preset[2].Package) # <<>>

\* C5: a run with a preset of zero steps, no marker file, a .gitignore that
\* is absent or lacks ".sst", and no failing system call, succeeds; it
\* changes .gitignore only, by appending the default section once, and
\* writes no config file.
C5_EmptyPreset ==
    ( /\ Done /\ ~fault
      /\ presetAsset.readable /\ presetAsset.wellformed /\ presetAsset.Steps = <<>>
      /\ ~Exists(fs0, Marker)
      /\ ~Contains(IgnoreText(fs0), SstPath) )
    => /\ result = "ok"
       /\ \A p \in Paths \ {gitignoreFilename} : fs[p] = fs0[p]
       /\ dirs = InitialDirs
       /\ WrittenBy("flushConfig") = {} /\ Len(wlog) = 1
       /\ fs[gitignoreFilename].kind = "text"
       /\ \E sep \in {<<>>, <<NL>>} :
            IgnoreText(fs) = IgnoreText(fs0) \o sep
                             \o <<NL>> \o SstName \o <<NL>> \o SstPath \o <<NL>>
       /\ Count(IgnoreText(fs), SstPath) = 1
       /\ Count(IgnoreText(fs), SstName) = 1

C5_Witness ==
    /\ Done /\ result = "ok" /\ ~fault
    /\ presetAsset.wellformed /\ presetAsset.Steps = <<>>
    /\ IgnoreText(fs0) = <<"x">>
    /\ IgnoreText(fs) = <<"x", NL, NL>> \o SstName \o <<NL>> \o SstPath \o <<NL>>

\* C6: when step k fails, Create returns an error, the loop stands at k (no
\* later step ran) and neither flush has written.
C6_FailedStepReturnsError ==
    (Done /\ failedAt # 0) =>
        /\ IsError(result)
        /\ i = failedAt
        /\ WrittenBy("flushConfig") = {} /\ WrittenBy("flushIgnore") = {}

\* C7: an npm step writes nothing to disk; a config file is written by the
\* flush only when the step loop is over, and once per path; as long as the
\* flush has not written a path and no patch or copy step has, the file on
\* disk is as it was when Create was called.
C7_NpmDeferred ==
    /\ [][AtStep("npm") => (fs' = fs /\ dirs' = dirs /\ wlog' = wlog)]_vars
    /\ [](\A p \in Paths :
            /\ Cardinality(WritesTo(p, "flushConfig")) <= 1
            /\ WritesTo(p, "flushConfig") # {} =>
                 /\ i = Len(preset) + 1
                 /\ pc \in {"flushConfig", "flushIgnore", "done"}
                 /\ packageJsons[p].loaded
            /\ (WritesTo(p, "flushConfig") = {} /\ WritesTo(p, "patch") = {}
                  /\ WritesTo(p, "copy") = {} /\ p # gitignoreFilename)
                 => fs[p] = fs0[p])

\* An aborted run: the document in memory has the new dependency, the file
\* on disk does not.
C7_Witness ==
    /\ Done /\ IsError(result) /\ Len(preset) = 2
    /\ preset[1].Type = "npm" /\ preset[1].File = PackageJson
    /\ failedAt = 2
    /\ packageJsons[PackageJson].loaded
    /\ packageJsons[PackageJson].doc # fs[PackageJson].doc
    /\ fs[PackageJson] = fs0[PackageJson]

\* C8: the ignore flush starts only when every loaded document has been
\* written; when a write fails Create returns the error and .gitignore is
\* as it was, neither created nor changed.
C8_ConfigBeforeIgnore ==
    /\ (pc = "flushIgnore" \/ WrittenBy("flushIgnore") # {} \/ (Done /\ result = "ok" /\ PresetLoaded))
         => \A p \in LoadedFiles :
              /\ WritesTo(p, "flushConfig") # {}
              /\ \A k \in WritesTo(p, "flushConfig"), n \in WrittenBy("flushIgnore") : k < n
    /\ (Done /\ i = Len(preset) + 1 /\ LoadedFiles \ flushed # {})
         => result = "WriteFile"
    /\ (Done /\ result = "WriteFile")
         => /\ fs[gitignoreFilename] = fs0[gitignoreFilename]
            /\ WrittenBy("flushIgnore") = {}

\* The second of two documents fails to be written.
C8_Witness ==
    /\ Done /\ result = "WriteFile"
    /\ Cardinality(LoadedFiles) = 2 /\ Cardinality(flushed) = 1
    /\ ~Exists(fs, gitignoreFilename)

\* C9: when the preset cannot be read or it, or the properties of one of its
\* steps, cannot be decoded, nothing has been written.
C9_PresetErrorWritesNothing ==
    (Done /\ result \in {"ReadFile", "Unmarshal"}) =>
        fs = fs0 /\ dirs = InitialDirs /\ wlog = <<>>

\* C10: a patch step whose file does not exist changes nothing on disk and
\* is no error: the loop goes on to the next step or, after the last step,
\* to the flushes.
C10_PatchMissingSkipped ==
    [][ (AtStep("patch") /\ preset[i].decodes /\ ~Exists(fs, preset[i].File)) =>
          /\ fs' = fs /\ dirs' = dirs /\ wlog' = wlog
          /\ result' = "none" /\ failedAt' = failedAt
          /\ i' = i + 1
          /\ (i < Len(preset) => pc' = "steps")
          /\ (i = Len(preset) => pc' \in {"flushConfig", "flushIgnore"}) ]_vars

\* A skipped patch (its pattern would not even compile) followed by a
\* gitignore step, and both flushes done.
C10_Witness ==
    /\ Done /\ result = "ok" /\ Len(preset) = 2
    /\ preset[1].Type = "patch" /\ preset[1].decodes
    /\ ~Exists(fs0, preset[1].File)
    /\ \E k \in 1..Len(preset[1].Regex) : ~Compiles(preset[1].Regex[k])
    /\ preset[2].Type = "gitignore"
    /\ Contains(IgnoreText(fs), preset[2].Path)
    /\ ~Exists(fs, preset[1].File)

----------------------------------------------------------------------------
\* The values of package under field in the document doc.
DocEntries(doc, field, package) ==
    LET fields == SelectSeq(doc, LAMBDA kv : kv.Key = field /\ kv.Value.obj)
    IN  IF fields = <<>> THEN <<>>
        ELSE LET m == fields[1].Value.m
             IN  IF package \in DOMAIN m THEN <<m[package]>> ELSE <<>>

\* C11: an npm step that names a version sets the package entry to that
\* version and makes no request to the registry; an npm step that names
\* none and completes makes exactly one request, for its package, and sets
\* the entry to the version of the reply.  No npm step makes more than one
\* request.
C11_VersionResolution ==
    [][AtStep("npm") /\ preset[i].decodes =>
         LET step == preset[i]
             entry == DocEntries(packageJsons'[step.File].doc, Field(step), step.Package)
             n == Len(queries')
         IN  /\ step.Version # "" => queries' = queries
             /\ n <= Len(queries) + 1
             /\ i' = i + 1 =>
                   IF step.Version # ""
                     THEN entry = <<step.Version>>
                     ELSE /\ n = Len(queries) + 1
                          /\ SubSeq(queries', 1, n - 1) = queries
                          /\ queries'[n].package = step.Package
                          /\ entry = <<queries'[n].version>>]_vars

\* A run with one step of each kind has ended: the entry of the step with
\* a version holds it, the other holds the registry's reply.
C11_Witness ==
    /\ pc = "done" /\ result = "ok" /\ run = "first"
    /\ preset = <<NpmStep(PackageJson, "sst", "1", FALSE),
                  NpmStep(PackageJson, "aws", "", FALSE)>>
    /\ Len(queries) = 1 /\ queries[1].package = "aws" /\ queries[1].version = "9"
    /\ Entries(fs, PackageJson, "dependencies", "sst") = <<"1">>
    /\ Entries(fs, PackageJson, "dependencies", "aws") = <<"9">>

\* C12: a patch step that fails (malformed patch document, target file
\* that does not parse, find pattern that does not compile as a regular
\* expression) makes Create return an error to its caller; Create never
\* ends by a panic in a patch step.
C12_PatchFailureReturned ==
    (pc = "done" /\ failedAt # 0 /\ preset[failedAt].Type = "patch" /\ ~fault)
        => IsError(result)

\* C13: a file handle opened during a run is released when the operation
\* that opened it ends: between two operations (before a step, before a
\* flush phase, after Create has ended) no handle is open.
C13_HandlesReleased ==
    pc \in {"steps", "flushConfig", "flushIgnore", "done"} => handles = {}

\* The documents read from path by npm steps, in order.
ReadsOf(path) == SelectSeq(reads, LAMBDA r : r.path = path)

DependencyFields == {"dependencies", "devDependencies"}

\* The items of doc other than the dependency fields, in order.
Others(doc) == SelectSeq(doc, LAMBDA kv : kv.Key \notin DependencyFields)

\* The packages a step or an initial document names.
Packages == {"sst", "aws"}

\* C14: a config file is read from disk at most once in a run; after a
\* run that returned nil the file of every loaded path holds the document
\* kept in memory, which is the document as it was first read with the
\* dependency entries registered in the run applied and nothing else:
\* what a patch step wrote to the path after the first read is not in it.
C14_DocumentIsSourceOfTruth ==
    /\ \A p \in Paths : Len(ReadsOf(p)) <= 1
    /\ (pc = "done" /\ result = "ok") =>
          \A p \in LoadedFiles :
            /\ Len(ReadsOf(p)) = 1
            /\ fs[p] = JsonFile(packageJsons[p].doc)
            /\ Others(fs[p].doc) = Others(ReadsOf(p)[1].doc)
            /\ \A field \in DependencyFields, package \in Packages :
                  DocEntries(fs[p].doc, field, package) =
                    IF <<p, field, package>> \in DOMAIN registered
                      THEN <<registered[<<p, field, package>>]>>
                      ELSE DocEntries(ReadsOf(p)[1].doc, field, package)

\* A patch step wrote package.json after an npm step had loaded it, and
\* the flush has replaced what it wrote: the key it added is not there.
C14_Witness ==
    /\ pc = "done" /\ result = "ok" /\ run = "first"
    /\ Len(preset) = 2
    /\ preset[1].Type = "npm" /\ preset[1].File = PackageJson
    /\ Len(wlog) >= 2
    /\ wlog[1] = Write(PackageJson, "patch")
    /\ wlog[2] = Write(PackageJson, "flushConfig")
    /\ ~HasKey(fs[PackageJson].doc, "type")
    /\ HasKey(fs[PackageJson].doc, "name")

\* The top-level keys of doc, in order.
Keys(doc) == [k \in 1..Len(doc) |-> doc[k].Key]

\* C15: after a run that returned nil, the top-level keys a config file
\* had when it was loaded are the first keys of the flushed file, in the
\* same order; the keys after them are dependency fields the loaded file
\* did not have; no key occurs twice.
C15_KeyOrderKept ==
    (pc = "done" /\ result = "ok") =>
      \A p \in LoadedFiles :
        /\ ReadsOf(p) # <<>>
        /\ fs[p].kind = "json"
        /\ LET before == Keys(ReadsOf(p)[1].doc)
               after == Keys(fs[p].doc)
           IN  /\ Len(after) >= Len(before)
               /\ SubSeq(after, 1, Len(before)) = before
               /\ \A k \in Len(before) + 1 .. Len(after) :
                     /\ after[k] \in DependencyFields
                     /\ \A j \in 1..Len(before) : before[j] # after[k]
               /\ \A j, k \in 1..Len(after) : j # k => after[j] # after[k]

\* package.json had name and dependencies; a step for a development
\* dependency has added devDependencies after them.
C15_Witness ==
    /\ pc = "done" /\ result = "ok" /\ run = "first"
    /\ fs0[PackageJson] = JsonFile(Doc1)
    /\ fs[PackageJson].kind = "json"
    /\ Keys(fs[PackageJson].doc) = <<"name", "dependencies", "devDependencies">>

\* s is a prefix of t.
IsPrefix(s, t) == Len(s) <= Len(t) /\ SubSeq(t, 1, Len(s)) = s

\* The lines of a section, after the blank lines that separate it.
Lines(step) == step.Name \o <<NL>> \o step.Path \o <<NL>>

RECURSIVE InOrder(_, _)
\* text consists of the lines of some of the sections of steps, in the
\* order of steps, each after one or two newlines.
InOrder(text, steps) ==
    IF steps = <<>> THEN text = <<>>
    ELSE \/ InOrder(text, Tail(steps))
         \/ \E sep \in {<<NL>>, <<NL, NL>>} :
              LET block == sep \o Lines(Head(steps))
              IN  /\ IsPrefix(block, text)
                  /\ InOrder(SubSeq(text, Len(block) + 1, Len(text)), Tail(steps))

\* C16: the ignore flush only appends: the content the ignore file had
\* before the flush is a prefix of its content after it, and what is
\* added is made of sections in the order of their registration, the
\* default section (the first registered) before the others.
C16_IgnoreAppendOnly ==
    [][pc = "flushIgnore" =>
         LET before == IgnoreText(fs)
             after == IgnoreText(fs')
         IN  /\ IsPrefix(before, after)
             /\ gitignoreSteps # <<>> /\ Head(gitignoreSteps) = DefaultSection
             /\ InOrder(SubSeq(after, Len(before) + 1, Len(after)), gitignoreSteps)]_vars

\* The file held "x"; the default section and a section of the preset
\* have been added after it, in this order.
C16_Witness ==
    /\ pc = "done" /\ result = "ok" /\ run = "first"
    /\ IgnoreText(fs0) = <<"x">>
    /\ Len(gitignoreSteps) = 2
    /\ IsPrefix(<<"x", NL, NL>> \o Lines(gitignoreSteps[1]), IgnoreText(fs))
    /\ Count(IgnoreText(fs), Lines(gitignoreSteps[2])) = 1

RECURSIVE Appended(_, _, _)
\* The file after the sections of steps whose path is not in content have
\* been added to text, each as its header line and its path line after one
\* blank line: the line before is ended first when text, the file at that
\* moment, is not empty and does not end in a newline.
Appended(text, content, steps) ==
    IF steps = <<>> THEN text
    ELSE IF Contains(content, Head(steps).Path)
      THEN Appended(text, content, Tail(steps))
      ELSE Appended(text
                      \o (IF text # <<>> /\ ~HasSuffixNL(text) THEN <<NL>> ELSE <<>>)
                      \o <<NL>> \o Lines(Head(steps)),
                    content, Tail(steps))

\* C17: every section written by the ignore flush is added as its header
\* line and its path line, each ended by a newline, after a blank line;
\* a newline that ends the line before is added only when the file is not
\* empty and does not already end in a newline.
C17_SectionText ==
    [][pc = "flushIgnore" /\ result' = "ok" =>
         IgnoreText(fs') = Appended(IgnoreText(fs), IgnoreText(fs), gitignoreSteps)]_vars

\* C18: Create returns nil only if the preset was loaded, every step of
\* the preset was carried out to its end with no failed operation, and
\* both flush phases were completed.
C18_SuccessMeansComplete ==
    (pc = "done" /\ result = "ok") =>
        /\ PresetLoaded
        /\ i = Len(preset) + 1
        /\ failedAt = 0
        /\ LoadedFiles \subseteq flushed

\* C19: after a run that returned nil, no dependency entry registered in
\* the run has an empty version: a reply of the registry without a version
\* makes the run fail instead.
C19_NoEmptyVersion ==
    (pc = "done" /\ result = "ok") =>
        /\ \A key \in DOMAIN registered : registered[key] # ""
        /\ \A k \in 1..Len(queries) : queries[k].version # ""

\* C20: a Create that follows, in the same directory and with the same
\* preset, a Create that returned nil with no failed system call adds
\* nothing to the ignore file: at every moment of the second run the file
\* is as the first run left it, so each section path occurs in it as many
\* times as after the first run.
C20_SecondRunAddsNothing ==
    run = "second" =>
        /\ fs[gitignoreFilename] = fs0[gitignoreFilename]
        /\ \A k \in 1..Len(gitignoreSteps) :
              Count(IgnoreText(fs), gitignoreSteps[k].Path)
                = Count(IgnoreText(fs0), gitignoreSteps[k].Path)

\* The second run has returned nil after its ignore flush; the first run
\* had written the default section and a section of the preset, and did
\* not produce the marker file.
C20_Witness ==
    /\ run = "second" /\ pc = "done" /\ result = "ok"
    /\ ~Exists(fs, Marker)
    /\ Len(gitignoreSteps) = 2
    /\ Contains(IgnoreText(fs), Lines(gitignoreSteps[1]))
    /\ Contains(IgnoreText(fs), Lines(gitignoreSteps[2]))
    /\ WritesTo(gitignoreFilename, "flushIgnore") = {}
====
